---------------------------- MODULE Spec2Model ----------------------------
(***************************************************************************)
(* Model of examples/create_test_pair.py: the generator of the workbook    *)
(* pair test_old.xlsx / test_new.xlsx.                                     *)
(*                                                                         *)
(* The script is a straight-line program over a workbook object.  Each     *)
(* statement is one instruction of the tables create_old, create_new and   *)
(* main; one action per kind of statement executes it on the in-memory     *)
(* workbook.  Python strings that end up in the workbook are sequences of  *)
(* one-character strings, so that a formula's text and a cell coordinate   *)
(* can be taken apart; file names and printed lines are plain strings.     *)
(* The entry point may be invoked several times (MaxRuns); the files       *)
(* outlive an invocation, everything else is per process.                  *)
(***************************************************************************)
EXTENDS Integers, Sequences, FiniteSets, TLC

\* number of invocations of the entry point that are explored
MaxRuns == 2

VARIABLES
  status,   \* "idle", "running", "done" (exit 0) or "aborted" (uncaught exception)
  stack,    \* call stack: frames [fn, ip], the top frame last
  wb,       \* the Workbook object of the running create_* function, or NoWb
  locals,   \* the sheet each of ws, ws2, ws3 is bound to (index in wb.sheets, 0 = unbound)
  files,    \* the file system: path -> file
  out,      \* standard output of the current invocation
  err,      \* the exception that ended the invocation, or "none"
  log,      \* history: every wb.save call, [run, path, content, ok]
  run,      \* number of invocations started so far
  clock     \* wall clock of the environment; the script never reads it

vars == <<status, stack, wb, locals, files, out, err, log, run, clock>>

-----------------------------------------------------------------------------
(* Python values the script writes into cells *)

PyStr(s) == [type |-> "str", v |-> s]

PyInt(n) == [type |-> "int", v |-> n]

\* the characters column letters and row numbers are written with
Letters ==
  <<"A", "B", "C", "D", "E", "F", "G", "H", "I", "J", "K", "L", "M",
    "N", "O", "P", "Q", "R", "S", "T", "U", "V", "W", "X", "Y", "Z">>

Digits == <<"0", "1", "2", "3", "4", "5", "6", "7", "8", "9">>

-----------------------------------------------------------------------------
(* String literals of the script *)

\* "Data"  (lines 11, 40)
s_Data ==
  <<"D", "a", "t", "a">>

\* "Patient ID"  (lines 12, 41)
s_Patient_ID ==
  <<"P", "a", "t", "i", "e", "n", "t", " ", "I", "D">>

\* "Age"  (lines 12, 41)
s_Age ==
  <<"A", "g", "e">>

\* "Score"  (lines 12, 41)
s_Score ==
  <<"S", "c", "o", "r", "e">>

\* "Group"  (lines 12, 41)
s_Group ==
  <<"G", "r", "o", "u", "p">>

\* "P001"  (lines 13, 42)
s_P001 ==
  <<"P", "0", "0", "1">>

\* "Control"  (lines 13, 15, 17, 42, 44, 46)
s_Control ==
  <<"C", "o", "n", "t", "r", "o", "l">>

\* "P002"  (lines 14, 43)
s_P002 ==
  <<"P", "0", "0", "2">>

\* "Treatment"  (lines 14, 16, 43, 45, 47)
s_Treatment ==
  <<"T", "r", "e", "a", "t", "m", "e", "n", "t">>

\* "P003"  (lines 15, 44)
s_P003 ==
  <<"P", "0", "0", "3">>

\* "P004"  (lines 16, 45)
s_P004 ==
  <<"P", "0", "0", "4">>

\* "P005"  (lines 17, 46)
s_P005 ==
  <<"P", "0", "0", "5">>

\* "Summary"  (lines 20, 50)
s_Summary ==
  <<"S", "u", "m", "m", "a", "r", "y">>

\* "Metric"  (lines 21, 51)
s_Metric ==
  <<"M", "e", "t", "r", "i", "c">>

\* "Value"  (lines 22, 52)
s_Value ==
  <<"V", "a", "l", "u", "e">>

\* "Count"  (lines 23, 53)
s_Count ==
  <<"C", "o", "u", "n", "t">>

\* "Mean Age"  (lines 25, 55)
s_Mean_Age ==
  <<"M", "e", "a", "n", " ", "A", "g", "e">>

\* "=AVERAGE(Data!B2:B6)"  (lines 26)
s_AVERAGE_Data_B2_B6 ==
  <<"=", "A", "V", "E", "R", "A", "G", "E", "(", "D", "a", "t", "a", "!", "B", "2", ":", "B", "6", ")">>

\* "Mean Score"  (lines 27)
s_Mean_Score ==
  <<"M", "e", "a", "n", " ", "S", "c", "o", "r", "e">>

\* "=AVERAGE(Data!C2:C6)"  (lines 28)
s_AVERAGE_Data_C2_C6 ==
  <<"=", "A", "V", "E", "R", "A", "G", "E", "(", "D", "a", "t", "a", "!", "C", "2", ":", "C", "6", ")">>

\* "Total Score"  (lines 29, 59)
s_Total_Score ==
  <<"T", "o", "t", "a", "l", " ", "S", "c", "o", "r", "e">>

\* "=SUM(Data!C2:C6)"  (lines 30)
s_SUM_Data_C2_C6 ==
  <<"=", "S", "U", "M", "(", "D", "a", "t", "a", "!", "C", "2", ":", "C", "6", ")">>

\* "P005": the appended row repeats the identifier of the row above
s_P006_repeated ==
  <<"P", "0", "0", "5">>

\* "P006"  (lines 47)
s_P006 ==
  <<"P", "0", "0", "6">>

\* "=AVERAGE(Data!B2:B7)"  (lines 56)
s_AVERAGE_Data_B2_B7 ==
  <<"=", "A", "V", "E", "R", "A", "G", "E", "(", "D", "a", "t", "a", "!", "B", "2", ":", "B", "7", ")">>

\* "Mean Score": the label of the old variant kept
s_Median_Score_kept ==
  <<"M", "e", "a", "n", " ", "S", "c", "o", "r", "e">>

\* "Median Score"  (lines 57)
s_Median_Score ==
  <<"M", "e", "d", "i", "a", "n", " ", "S", "c", "o", "r", "e">>

\* "=MEDIAN(Data!C2:C7)"  (lines 58)
s_MEDIAN_Data_C2_C7 ==
  <<"=", "M", "E", "D", "I", "A", "N", "(", "D", "a", "t", "a", "!", "C", "2", ":", "C", "7", ")">>

\* "=SUM(Data!C2:C6)": the range of the old variant, not moved to the new last row
s_SUM_Data_C2_C7_stale ==
  <<"=", "S", "U", "M", "(", "D", "a", "t", "a", "!", "C", "2", ":", "C", "6", ")">>

\* "=SUM(Data!C2:C7)"  (lines 60)
s_SUM_Data_C2_C7 ==
  <<"=", "S", "U", "M", "(", "D", "a", "t", "a", "!", "C", "2", ":", "C", "7", ")">>

\* "Notes"  (lines 63)
s_Notes ==
  <<"N", "o", "t", "e", "s">>

\* "Date"  (lines 64)
s_Date ==
  <<"D", "a", "t", "e">>

\* "Note"  (lines 65)
s_Note ==
  <<"N", "o", "t", "e">>

\* the date of the day the script runs instead of the literal
s_2026_02_14_today ==
  <<"2", "0", "2", "6", "-", "0", "2", "-", "1", Digits[(clock % 10) + 1]>>

\* "2026-02-14"  (lines 66)
s_2026_02_14 ==
  <<"2", "0", "2", "6", "-", "0", "2", "-", "1", "4">>

\* "Added patient P006, updated summary formulas"  (lines 67)
s_Added_patient_P006_updated_summary_formulas ==
  <<"A", "d", "d", "e", "d", " ", "p", "a", "t", "i", "e", "n", "t", " ", "P", "0", "0", "6", ",", " ", "u", "p", "d", "a", "t", "e", "d", " ", "s", "u", "m", "m", "a", "r", "y", " ", "f", "o", "r", "m", "u", "l", "a", "s">>

-----------------------------------------------------------------------------
(* The script, statement by statement *)

create_old ==
  << [op |-> "Workbook", var |-> "wb", arg |-> <<>>, line |-> 7],
     [op |-> "active", var |-> "ws", arg |-> <<>>, line |-> 10],
     [op |-> "title", var |-> "ws", arg |-> s_Data, line |-> 11],
     [op |-> "append", var |-> "ws", arg |-> <<PyStr(s_Patient_ID), PyStr(s_Age), PyStr(s_Score), PyStr(s_Group)>>, line |-> 12],
     [op |-> "append", var |-> "ws", arg |-> <<PyStr(s_P001), PyInt(34), PyInt(88), PyStr(s_Control)>>, line |-> 13],
     [op |-> "append", var |-> "ws", arg |-> <<PyStr(s_P002), PyInt(28), PyInt(92), PyStr(s_Treatment)>>, line |-> 14],
     [op |-> "append", var |-> "ws", arg |-> <<PyStr(s_P003), PyInt(45), PyInt(76), PyStr(s_Control)>>, line |-> 15],
     [op |-> "append", var |-> "ws", arg |-> <<PyStr(s_P004), PyInt(31), PyInt(85), PyStr(s_Treatment)>>, line |-> 16],
     [op |-> "append", var |-> "ws", arg |-> <<PyStr(s_P005), PyInt(39), PyInt(90), PyStr(s_Control)>>, line |-> 17],
     [op |-> "create_sheet", var |-> "ws2", arg |-> s_Summary, line |-> 20],
     [op |-> "setitem", var |-> "ws2", arg |-> <<<<"A", "1">>, PyStr(s_Metric)>>, line |-> 21],
     [op |-> "setitem", var |-> "ws2", arg |-> <<<<"B", "1">>, PyStr(s_Value)>>, line |-> 22],
     [op |-> "setitem", var |-> "ws2", arg |-> <<<<"A", "2">>, PyStr(s_Count)>>, line |-> 23],
     [op |-> "setitem", var |-> "ws2", arg |-> <<<<"B", "2">>, PyInt(5)>>, line |-> 24],
     [op |-> "setitem", var |-> "ws2", arg |-> <<<<"A", "3">>, PyStr(s_Mean_Age)>>, line |-> 25],
     [op |-> "setitem", var |-> "ws2", arg |-> <<<<"B", "3">>, PyStr(s_AVERAGE_Data_B2_B6)>>, line |-> 26],
     [op |-> "setitem", var |-> "ws2", arg |-> <<<<"A", "4">>, PyStr(s_Mean_Score)>>, line |-> 27],
     [op |-> "setitem", var |-> "ws2", arg |-> <<<<"B", "4">>, PyStr(s_AVERAGE_Data_C2_C6)>>, line |-> 28],
     [op |-> "setitem", var |-> "ws2", arg |-> <<<<"A", "5">>, PyStr(s_Total_Score)>>, line |-> 29],
     [op |-> "setitem", var |-> "ws2", arg |-> <<<<"B", "5">>, PyStr(s_SUM_Data_C2_C6)>>, line |-> 30],
     [op |-> "save", var |-> "wb", arg |-> "test_old.xlsx", line |-> 32],
     [op |-> "print", var |-> "", arg |-> "Created test_old.xlsx", line |-> 33] >>

create_new ==
  << [op |-> "Workbook", var |-> "wb", arg |-> <<>>, line |-> 36],
     [op |-> "active", var |-> "ws", arg |-> <<>>, line |-> 39],
     [op |-> "title", var |-> "ws", arg |-> s_Data, line |-> 40],
     [op |-> "append", var |-> "ws", arg |-> <<PyStr(s_Patient_ID), PyStr(s_Age), PyStr(s_Score), PyStr(s_Group)>>, line |-> 41],
     [op |-> "append", var |-> "ws", arg |-> <<PyStr(s_P001), PyInt(34), PyInt(88), PyStr(s_Control)>>, line |-> 42],
     [op |-> "append", var |-> "ws", arg |-> <<PyStr(s_P002), PyInt(29), PyInt(95), PyStr(s_Treatment)>>, line |-> 43],
     [op |-> "append", var |-> "ws", arg |-> <<PyStr(s_P003), PyInt(45), PyInt(76), PyStr(s_Control)>>, line |-> 44],
     [op |-> "append", var |-> "ws", arg |-> <<PyStr(s_P004), PyInt(31), PyInt(85), PyStr(s_Treatment)>>, line |-> 45],
     [op |-> "append", var |-> "ws", arg |-> <<PyStr(s_P005), PyInt(39), PyInt(90), PyStr(s_Control)>>, line |-> 46],
     [op |-> "append", var |-> "ws", arg |-> <<PyStr(s_P006), PyInt(42), PyInt(81), PyStr(s_Treatment)>>, line |-> 47],
     [op |-> "create_sheet", var |-> "ws2", arg |-> s_Summary, line |-> 50],
     [op |-> "setitem", var |-> "ws2", arg |-> <<<<"A", "1">>, PyStr(s_Metric)>>, line |-> 51],
     [op |-> "setitem", var |-> "ws2", arg |-> <<<<"B", "1">>, PyStr(s_Value)>>, line |-> 52],
     [op |-> "setitem", var |-> "ws2", arg |-> <<<<"A", "2">>, PyStr(s_Count)>>, line |-> 53],
     [op |-> "setitem", var |-> "ws2", arg |-> <<<<"B", "2">>, PyInt(6)>>, line |-> 54],
     [op |-> "setitem", var |-> "ws2", arg |-> <<<<"A", "3">>, PyStr(s_Mean_Age)>>, line |-> 55],
     [op |-> "setitem", var |-> "ws2", arg |-> <<<<"B", "3">>, PyStr(s_AVERAGE_Data_B2_B7)>>, line |-> 56],
     [op |-> "setitem", var |-> "ws2", arg |-> <<<<"A", "4">>, PyStr(s_Median_Score)>>, line |-> 57],
     [op |-> "setitem", var |-> "ws2", arg |-> <<<<"B", "4">>, PyStr(s_MEDIAN_Data_C2_C7)>>, line |-> 58],
     [op |-> "setitem", var |-> "ws2", arg |-> <<<<"A", "5">>, PyStr(s_Total_Score)>>, line |-> 59],
     [op |-> "setitem", var |-> "ws2", arg |-> <<<<"B", "5">>, PyStr(s_SUM_Data_C2_C7)>>, line |-> 60],
     [op |-> "create_sheet", var |-> "ws3", arg |-> s_Notes, line |-> 63],
     [op |-> "setitem", var |-> "ws3", arg |-> <<<<"A", "1">>, PyStr(s_Date)>>, line |-> 64],
     [op |-> "setitem", var |-> "ws3", arg |-> <<<<"B", "1">>, PyStr(s_Note)>>, line |-> 65],
     [op |-> "setitem", var |-> "ws3", arg |-> <<<<"A", "2">>, PyStr(s_2026_02_14)>>, line |-> 66],
     [op |-> "setitem", var |-> "ws3", arg |-> <<<<"B", "2">>, PyStr(s_Added_patient_P006_updated_summary_formulas)>>, line |-> 67],
     [op |-> "save", var |-> "wb", arg |-> "test_new.xlsx", line |-> 69],
     [op |-> "print", var |-> "", arg |-> "Created test_new.xlsx", line |-> 70] >>

\* the two calls in the opposite order
main_swapped ==
  << [op |-> "call", var |-> "", arg |-> "create_new", line |-> 74],
     [op |-> "call", var |-> "", arg |-> "create_old", line |-> 73],
     [op |-> "print", var |-> "", arg |-> "Done! Run:", line |-> 75],
     [op |-> "print", var |-> "", arg |-> "  xlsx-review --diff test_old.xlsx test_new.xlsx", line |-> 76],
     [op |-> "print", var |-> "", arg |-> "  xlsx-review --textconv test_new.xlsx", line |-> 77] >>

main ==
  << [op |-> "call", var |-> "", arg |-> "create_old", line |-> 73],
     [op |-> "call", var |-> "", arg |-> "create_new", line |-> 74],
     [op |-> "print", var |-> "", arg |-> "Done! Run:", line |-> 75],
     [op |-> "print", var |-> "", arg |-> "  xlsx-review --diff test_old.xlsx test_new.xlsx", line |-> 76],
     [op |-> "print", var |-> "", arg |-> "  xlsx-review --textconv test_new.xlsx", line |-> 77] >>
-----------------------------------------------------------------------------
(* The workbook object, as the script uses it *)

Paths == {"test_old.xlsx", "test_new.xlsx"}

SheetVars == {"ws", "ws2", "ws3"}

NoWb == [sheets |-> <<>>]

NoCells == [a \in {} |-> 0]

\* "Sheet": the title of the sheet a new Workbook starts with
s_Sheet ==
  <<"S", "h", "e", "e", "t">>

\* openpyxl.Workbook(): one sheet, active, no cells, row cursor at 0
Workbook ==
  [sheets |-> << [title |-> s_Sheet, cells |-> NoCells, current_row |-> 0] >>]

\* wb.active: the first sheet
active(w) == 1

Max(a, b) == IF a >= b THEN a ELSE b

IsLetter(c) == \E i \in 1..26 : Letters[i] = c

IsDigit(c) == \E i \in 1..10 : Digits[i] = c

LetterVal(c) == CHOOSE i \in 1..26 : Letters[i] = c

DigitVal(c) == (CHOOSE i \in 1..10 : Digits[i] = c) - 1

RECURSIVE column_index_from_string(_)
\* "A" -> 1, "Z" -> 26, "AA" -> 27
column_index_from_string(s) ==
  IF s = <<>> THEN 0
  ELSE 26 * column_index_from_string(SubSeq(s, 1, Len(s) - 1)) + LetterVal(s[Len(s)])

RECURSIVE int_from_digits(_)
int_from_digits(s) ==
  IF s = <<>> THEN 0
  ELSE 10 * int_from_digits(SubSeq(s, 1, Len(s) - 1)) + DigitVal(s[Len(s)])

\* number of leading letters of s
RECURSIVE LetterPrefix(_)
LetterPrefix(s) ==
  IF s # <<>> /\ IsLetter(s[1]) THEN 1 + LetterPrefix(Tail(s)) ELSE 0

\* ws["B3"]: the coordinate string is split into column letters and row digits
coordinate_to_tuple(c) ==
  LET k == LetterPrefix(c)
  IN  << column_index_from_string(SubSeq(c, 1, k)),
         int_from_digits(SubSeq(c, k + 1, Len(c))) >>

\* a string starting with "=" is tagged as a plain string
bind_value_plain(v) ==
  IF v.type = "int" THEN [value |-> v.v, data_type |-> "n"]
  ELSE [value |-> v.v, data_type |-> "s"]

\* cell.value = v: the type tag the cell gets for a Python value
bind_value(v) ==
  IF v.type = "int" THEN [value |-> v.v, data_type |-> "n"]
  ELSE IF Len(v.v) > 1 /\ v.v[1] = "=" THEN [value |-> v.v, data_type |-> "f"]
  ELSE [value |-> v.v, data_type |-> "s"]

\* the cells of sheet sh after writing cell c at address a = <<column, row>>
put(cells, a, c) ==
  [x \in (DOMAIN cells) \cup {a} |-> IF x = a THEN c ELSE cells[x]]

\* the coordinate is taken as (row, column) instead of (column, row)
setitem_transposed(w, i, coord, v) ==
  LET a == coordinate_to_tuple(coord)
  IN  [w EXCEPT !.sheets[i].cells = put(@, <<a[2], a[1]>>, bind_value(v)),
                !.sheets[i].current_row = Max(a[1], @)]

\* ws[coord] = v on sheet i: the cell is set and the row cursor covers its row
setitem(w, i, coord, v) ==
  LET a == coordinate_to_tuple(coord)
  IN  [w EXCEPT !.sheets[i].cells = put(@, a, bind_value(v)),
                !.sheets[i].current_row = Max(a[2], @)]

\* the row is written at the cursor instead of below it
append_overwrite(w, i, row) ==
  LET r == Max(w.sheets[i].current_row, 1)
      old == w.sheets[i].cells
      new == [x \in (DOMAIN old) \cup {<<k, r>> : k \in 1..Len(row)} |->
                IF x[2] = r /\ x[1] \in 1..Len(row) THEN bind_value(row[x[1]])
                ELSE old[x]]
  IN  [w EXCEPT !.sheets[i].cells = new,
                !.sheets[i].current_row = r]

\* ws.append(row) on sheet i: value k goes to column k of the row after the cursor
append(w, i, row) ==
  LET r == w.sheets[i].current_row + 1
      old == w.sheets[i].cells
      new == [x \in (DOMAIN old) \cup {<<k, r>> : k \in 1..Len(row)} |->
                IF x[2] = r /\ x[1] \in 1..Len(row) THEN bind_value(row[x[1]])
                ELSE old[x]]
  IN  [w EXCEPT !.sheets[i].cells = new,
                !.sheets[i].current_row = r]

\* ws.title = t on sheet i
set_title(w, i, t) == [w EXCEPT !.sheets[i].title = t]

\* the new sheet is put before the existing ones
create_sheet_first(w, t) ==
  [w EXCEPT !.sheets = <<[title |-> t, cells |-> NoCells, current_row |-> 0]>> \o @]

\* wb.create_sheet(t): a new empty sheet after the existing ones
create_sheet(w, t) ==
  [w EXCEPT !.sheets = Append(@, [title |-> t, cells |-> NoCells, current_row |-> 0])]

\* what wb.save hands to the file: the sheets in order, their titles and cells
Serialize(w) ==
  [i \in 1..Len(w.sheets) |-> [title |-> w.sheets[i].title, cells |-> w.sheets[i].cells]]

Absent == [state |-> "absent", content |-> <<>>]

-----------------------------------------------------------------------------
(* The interpreter *)

Code(fn) ==
  CASE fn = "main" -> main
    [] fn = "create_old" -> create_old
    [] fn = "create_new" -> create_new

Top == stack[Len(stack)]

Running == status = "running" /\ stack # <<>>

HasInstr == Running /\ Top.ip <= Len(Code(Top.fn))

Cur == Code(Top.fn)[Top.ip]

Advance == [stack EXCEPT ![Len(stack)].ip = @ + 1]

Init ==
  /\ status = "idle"
  /\ stack = <<>>
  /\ wb = NoWb
  /\ locals = [x \in SheetVars |-> 0]
  /\ files = [p \in Paths |-> Absent]
  /\ out = <<>>
  /\ err = "none"
  /\ log = <<>>
  /\ run = 0
  /\ clock = 0

\* python create_test_pair.py: a new process runs the __main__ block
Invoke ==
  /\ status \in {"idle", "done", "aborted"}
  /\ run < MaxRuns
  /\ status' = "running"
  /\ stack' = << [fn |-> "main", ip |-> 1] >>
  /\ wb' = NoWb
  /\ locals' = [x \in SheetVars |-> 0]
  /\ out' = <<>>
  /\ err' = "none"
  /\ run' = run + 1
  /\ clock' = clock + 1
  /\ UNCHANGED <<files, log>>

\* create_old() / create_new(): a new frame with no locals
Call ==
  /\ HasInstr /\ Cur.op = "call"
  /\ stack' = Append(Advance, [fn |-> Cur.arg, ip |-> 1])
  /\ wb' = NoWb
  /\ locals' = [x \in SheetVars |-> 0]
  /\ UNCHANGED <<status, files, out, err, log, run, clock>>

\* the end of a function body: its locals are dropped; the end of __main__ ends the process
Return ==
  /\ Running /\ Top.ip > Len(Code(Top.fn))
  /\ stack' = SubSeq(stack, 1, Len(stack) - 1)
  /\ status' = IF Len(stack) = 1 THEN "done" ELSE status
  /\ wb' = NoWb
  /\ locals' = [x \in SheetVars |-> 0]
  /\ UNCHANGED <<files, out, err, log, run, clock>>

\* wb = openpyxl.Workbook()
NewWorkbook ==
  /\ HasInstr /\ Cur.op = "Workbook"
  /\ wb' = Workbook
  /\ stack' = Advance
  /\ UNCHANGED <<status, locals, files, out, err, log, run, clock>>

\* ws = wb.active
Active ==
  /\ HasInstr /\ Cur.op = "active"
  /\ locals' = [locals EXCEPT ![Cur.var] = active(wb)]
  /\ stack' = Advance
  /\ UNCHANGED <<status, wb, files, out, err, log, run, clock>>

\* ws.title = "Data"
SetTitle ==
  /\ HasInstr /\ Cur.op = "title"
  /\ wb' = set_title(wb, locals[Cur.var], Cur.arg)
  /\ stack' = Advance
  /\ UNCHANGED <<status, locals, files, out, err, log, run, clock>>

\* ws.append([...])
AppendRow ==
  /\ HasInstr /\ Cur.op = "append"
  /\ wb' = append(wb, locals[Cur.var], Cur.arg)
  /\ stack' = Advance
  /\ UNCHANGED <<status, locals, files, out, err, log, run, clock>>

\* ws2 = wb.create_sheet("Summary")
CreateSheet ==
  /\ HasInstr /\ Cur.op = "create_sheet"
  /\ wb' = create_sheet(wb, Cur.arg)
  /\ locals' = [locals EXCEPT ![Cur.var] = Len(wb.sheets) + 1]
  /\ stack' = Advance
  /\ UNCHANGED <<status, files, out, err, log, run, clock>>

\* ws2["B3"] = ...
SetItem ==
  /\ HasInstr /\ Cur.op = "setitem"
  /\ wb' = setitem(wb, locals[Cur.var], Cur.arg[1], Cur.arg[2])
  /\ stack' = Advance
  /\ UNCHANGED <<status, locals, files, out, err, log, run, clock>>

\* wb.save(path), the sink accepts: the file now holds the workbook
SaveOk ==
  /\ HasInstr /\ Cur.op = "save"
  /\ files' = [files EXCEPT ![Cur.arg] = [state |-> "ok", content |-> Serialize(wb)]]
  /\ log' = Append(log, [run |-> run, path |-> Cur.arg, content |-> Serialize(wb), ok |-> TRUE])
  /\ stack' = Advance
  /\ UNCHANGED <<status, wb, locals, out, err, run, clock>>

\* the rejection is caught and the script carries on
SaveFail_swallowed ==
  /\ HasInstr /\ Cur.op = "save"
  /\ \E stage \in {"open", "write"} :
       files' = IF stage = "open" THEN files
                ELSE [files EXCEPT ![Cur.arg] = [state |-> "partial", content |-> <<>>]]
  /\ log' = Append(log, [run |-> run, path |-> Cur.arg, content |-> Serialize(wb), ok |-> FALSE])
  /\ stack' = Advance
  /\ UNCHANGED <<status, wb, locals, out, err, run, clock>>

\* wb.save(path), the sink rejects: the exception is caught nowhere, so it
\* unwinds create_* and __main__ and ends the process.  The file is untouched
\* when it could not be opened and is left incomplete when the write broke off.
SaveFail ==
  /\ HasInstr /\ Cur.op = "save"
  /\ \E stage \in {"open", "write"} :
       files' = IF stage = "open" THEN files
                ELSE [files EXCEPT ![Cur.arg] = [state |-> "partial", content |-> <<>>]]
  /\ log' = Append(log, [run |-> run, path |-> Cur.arg, content |-> Serialize(wb), ok |-> FALSE])
  /\ err' = "OSError"
  /\ status' = "aborted"
  /\ stack' = <<>>
  /\ wb' = NoWb
  /\ locals' = [x \in SheetVars |-> 0]
  /\ UNCHANGED <<out, run, clock>>

\* print(...)
Stdout ==
  /\ HasInstr /\ Cur.op = "print"
  /\ out' = Append(out, Cur.arg)
  /\ stack' = Advance
  /\ UNCHANGED <<status, wb, locals, files, err, log, run, clock>>

\* one statement of the running process
Step ==
  \/ Call
  \/ Return
  \/ NewWorkbook
  \/ Active
  \/ SetTitle
  \/ AppendRow
  \/ CreateSheet
  \/ SetItem
  \/ SaveOk
  \/ SaveFail
  \/ Stdout

Next ==
  \/ Invoke
  \/ Call
  \/ Return
  \/ NewWorkbook
  \/ Active
  \/ SetTitle
  \/ AppendRow
  \/ CreateSheet
  \/ SetItem
  \/ SaveOk
  \/ SaveFail
  \/ Stdout

Spec == Init /\ [][Next]_vars

\* the interpreter always executes the next statement of a running process
FairSpec == Spec /\ WF_vars(Step)

-----------------------------------------------------------------------------
(* Reading the workbooks handed to the sink *)

OldPath == "test_old.xlsx"

NewPath == "test_new.xlsx"

\* the workbooks handed to the sink for path p, in any invocation so far
Handed(p) == {log[i].content : i \in {j \in DOMAIN log : log[j].path = p}}

Titles(c) == [i \in DOMAIN c |-> c[i].title]

TitleSet(c) == {c[i].title : i \in DOMAIN c}

HasSheet(c, t) == \E i \in DOMAIN c : c[i].title = t

CellsOf(c, t) == c[CHOOSE i \in DOMAIN c : c[i].title = t].cells

SameCell(a, b) == a.data_type = b.data_type /\ a.value = b.value

At(coord) == coordinate_to_tuple(coord)

RowsOf(cells) == {a[2] : a \in DOMAIN cells}

\* the first position of character ch in s, 0 when it does not occur
IndexOf(s, ch) ==
  IF \E i \in DOMAIN s : s[i] = ch
  THEN CHOOSE i \in DOMAIN s : s[i] = ch /\ \A j \in 1..(i - 1) : s[j] # ch
  ELSE 0

AllLetters(s) == s # <<>> /\ \A i \in DOMAIN s : IsLetter(s[i])

AllDigits(s) == s # <<>> /\ \A i \in DOMAIN s : IsDigit(s[i])

IsCoordinate(c) ==
  LET k == LetterPrefix(c)
  IN  k >= 1 /\ AllDigits(SubSeq(c, k + 1, Len(c)))

\* "=FN(Sheet!X1:Y2)": an equals sign, a function name, and one sheet-qualified range
IsRangeFormula(s) ==
  LET p == IndexOf(s, "(")
      q == IndexOf(s, "!")
      c == IndexOf(s, ":")
  IN  /\ Len(s) > 1 /\ s[1] = "=" /\ s[Len(s)] = ")"
      /\ 2 < p /\ p + 1 < q /\ q + 1 < c /\ c + 1 < Len(s)
      /\ AllLetters(SubSeq(s, 2, p - 1))
      /\ IsCoordinate(SubSeq(s, q + 1, c - 1))
      /\ IsCoordinate(SubSeq(s, c + 1, Len(s) - 1))

\* the parts of a range formula
FormulaParts(s) ==
  LET p == IndexOf(s, "(")
      q == IndexOf(s, "!")
      c == IndexOf(s, ":")
      first == coordinate_to_tuple(SubSeq(s, q + 1, c - 1))
      last == coordinate_to_tuple(SubSeq(s, c + 1, Len(s) - 1))
  IN  [func |-> SubSeq(s, 2, p - 1), sheet |-> SubSeq(s, p + 1, q - 1),
       col1 |-> first[1], row1 |-> first[2], col2 |-> last[1], row2 |-> last[2]]

\* rows 1..k of columns 1..n are all present and nothing lies below row k
FilledExactly(cells, n, k) ==
  DOMAIN cells = {<<col, r>> : col \in 1..n, r \in 1..k}

-----------------------------------------------------------------------------
(* Claims *)

\* the sheet names the claims speak of
SheetData == <<"D", "a", "t", "a">>

SheetSummary == <<"S", "u", "m", "m", "a", "r", "y">>

SheetNotes == <<"N", "o", "t", "e", "s">>

\* the cells the new variant deliberately changes: (sheet, coordinate)
DeltaCells ==
  { <<SheetData, At(<<"B", "3">>)>>, <<SheetData, At(<<"C", "3">>)>>,
    <<SheetSummary, At(<<"B", "2">>)>>, <<SheetSummary, At(<<"B", "3">>)>>,
    <<SheetSummary, At(<<"A", "4">>)>>, <<SheetSummary, At(<<"B", "4">>)>>,
    <<SheetSummary, At(<<"B", "5">>)>> }

\* C1 (minimal delta): for the workbooks handed to the sink as old and as new,
\* every cell address present on both Data sheets or on both Summary sheets,
\* other than the seven enumerated delta cells, holds the same value with the
\* same type tag in both.
C1_MinimalDelta ==
  \A o \in Handed(OldPath), n \in Handed(NewPath) :
    \A t \in {SheetData, SheetSummary} :
      /\ HasSheet(o, t)
      /\ HasSheet(n, t)
      /\ \A a \in (DOMAIN CellsOf(o, t)) \cap (DOMAIN CellsOf(n, t)) :
           <<t, a>> \notin DeltaCells => SameCell(CellsOf(o, t)[a], CellsOf(n, t)[a])

\* both workbooks were handed over and share cells outside the delta list
C1_Witness ==
  \E o \in Handed(OldPath), n \in Handed(NewPath) :
    /\ HasSheet(o, SheetData) /\ HasSheet(n, SheetData)
    /\ HasSheet(o, SheetSummary) /\ HasSheet(n, SheetSummary)
    /\ At(<<"A", "6">>) \in (DOMAIN CellsOf(o, SheetData)) \cap (DOMAIN CellsOf(n, SheetData))
    /\ At(<<"A", "5">>) \in (DOMAIN CellsOf(o, SheetSummary)) \cap (DOMAIN CellsOf(n, SheetSummary))

\* C2 (structural delta): old is handed over with exactly the sheets
\* [Data, Summary], new with exactly [Data, Summary, Notes]; new adds only
\* Notes and removes nothing; titles are unique and non-empty.
C2_StructuralDelta ==
  /\ \A o \in Handed(OldPath) : Titles(o) = <<SheetData, SheetSummary>>
  /\ \A n \in Handed(NewPath) : Titles(n) = <<SheetData, SheetSummary, SheetNotes>>
  /\ \A o \in Handed(OldPath), n \in Handed(NewPath) :
       /\ TitleSet(n) \ TitleSet(o) = {SheetNotes}
       /\ TitleSet(o) \ TitleSet(n) = {}
  /\ \A c \in Handed(OldPath) \cup Handed(NewPath) :
       /\ \A i \in DOMAIN c : c[i].title # <<>>
       /\ \A i, j \in DOMAIN c : c[i].title = c[j].title => i = j

C2_Witness == Handed(OldPath) # {} /\ Handed(NewPath) # {}

\* C3 (row counts): the old Data sheet is handed over with a header and rows
\* 2..6 and nothing in row 7, the new one with rows 2..7 and nothing in row 8,
\* and every formula on the new Summary sheet spans rows 2 through 7.
C3_RowCount ==
  /\ \A o \in Handed(OldPath) :
       /\ HasSheet(o, SheetData)
       /\ \A r \in 2..6 : \A col \in 1..4 : <<col, r>> \in DOMAIN CellsOf(o, SheetData)
       /\ \A r \in RowsOf(CellsOf(o, SheetData)) : r < 7
  /\ \A n \in Handed(NewPath) :
       /\ HasSheet(n, SheetData) /\ HasSheet(n, SheetSummary)
       /\ \A r \in 2..7 : \A col \in 1..4 : <<col, r>> \in DOMAIN CellsOf(n, SheetData)
       /\ \A r \in RowsOf(CellsOf(n, SheetData)) : r < 8
       /\ \A a \in DOMAIN CellsOf(n, SheetSummary) :
            CellsOf(n, SheetSummary)[a].data_type = "f" =>
              /\ IsRangeFormula(CellsOf(n, SheetSummary)[a].value)
              /\ FormulaParts(CellsOf(n, SheetSummary)[a].value).row1 = 2
              /\ FormulaParts(CellsOf(n, SheetSummary)[a].value).row2 = 7

\* both were handed over and the new Summary sheet does hold formulas
C3_Witness ==
  /\ Handed(OldPath) # {}
  /\ \E n \in Handed(NewPath) :
       /\ HasSheet(n, SheetSummary)
       /\ Cardinality({a \in DOMAIN CellsOf(n, SheetSummary) :
                         CellsOf(n, SheetSummary)[a].data_type = "f"}) = 3

AppendedRow ==
  [a \in {At(<<"A", "7">>), At(<<"B", "7">>), At(<<"C", "7">>), At(<<"D", "7">>)} |->
     CASE a = At(<<"A", "7">>) -> [value |-> <<"P", "0", "0", "6">>, data_type |-> "s"]
       [] a = At(<<"B", "7">>) -> [value |-> 42, data_type |-> "n"]
       [] a = At(<<"C", "7">>) -> [value |-> 81, data_type |-> "n"]
       [] a = At(<<"D", "7">>) -> [value |-> <<"T", "r", "e", "a", "t", "m", "e", "n", "t">>, data_type |-> "s"]]

\* C5 (Data delta): of the Data addresses present in both workbooks exactly B3
\* and C3 differ (28 -> 29 and 92 -> 95, on the P002 row), and the addresses
\* only new has are exactly A7..D7 = P006, 42, 81, Treatment, below every old row.
C5_DataDelta ==
  \A o \in Handed(OldPath), n \in Handed(NewPath) :
    /\ HasSheet(o, SheetData) /\ HasSheet(n, SheetData)
    /\ LET oc == CellsOf(o, SheetData)
           nc == CellsOf(n, SheetData)
       IN  /\ {a \in (DOMAIN oc) \cap (DOMAIN nc) : ~SameCell(oc[a], nc[a])}
                = {At(<<"B", "3">>), At(<<"C", "3">>)}
           /\ oc[At(<<"A", "3">>)].value = <<"P", "0", "0", "2">> /\ nc[At(<<"A", "3">>)].value = <<"P", "0", "0", "2">>
           /\ oc[At(<<"B", "3">>)] = [value |-> 28, data_type |-> "n"]
           /\ nc[At(<<"B", "3">>)] = [value |-> 29, data_type |-> "n"]
           /\ oc[At(<<"C", "3">>)] = [value |-> 92, data_type |-> "n"]
           /\ nc[At(<<"C", "3">>)] = [value |-> 95, data_type |-> "n"]
           /\ (DOMAIN nc) \ (DOMAIN oc) = DOMAIN AppendedRow
           /\ \A a \in DOMAIN AppendedRow : SameCell(nc[a], AppendedRow[a])
           /\ (DOMAIN oc) \ (DOMAIN nc) = {}
           /\ \A r \in RowsOf(oc) : r < 7

C5_Witness ==
  \E o \in Handed(OldPath), n \in Handed(NewPath) :
    /\ HasSheet(o, SheetData) /\ HasSheet(n, SheetData)
    /\ At(<<"B", "3">>) \in DOMAIN CellsOf(o, SheetData)
    /\ At(<<"D", "7">>) \in DOMAIN CellsOf(n, SheetData)

\* column A (the label) and column B (the value) of Summary row r
LabelAt(cells, r) == cells[<<1, r>>]

ValueAt(cells, r) == cells[<<2, r>>]

\* number of data rows the new Data sheet has more than the old one
RowsAdded(o, n) ==
  Cardinality(RowsOf(CellsOf(n, SheetData))) - Cardinality(RowsOf(CellsOf(o, SheetData)))

\* C6 (Summary edits): row by row, only row 4 changes its label (Mean Score ->
\* Median Score) and its function (AVERAGE -> MEDIAN); every other row keeps
\* label, function, sheet qualifier and column; every formula keeps its first
\* row and moves its last row by the number of rows added to Data (1, 6 -> 7),
\* and the Count in B2 grows by the same number (5 -> 6).
C6_SummaryEdits ==
  \A o \in Handed(OldPath), n \in Handed(NewPath) :
    /\ HasSheet(o, SheetSummary) /\ HasSheet(n, SheetSummary)
    /\ HasSheet(o, SheetData) /\ HasSheet(n, SheetData)
    /\ LET oc == CellsOf(o, SheetSummary)
           nc == CellsOf(n, SheetSummary)
           fr == {r \in 1..5 : ValueAt(oc, r).data_type = "f"}
           of(r) == FormulaParts(ValueAt(oc, r).value)
           nf(r) == FormulaParts(ValueAt(nc, r).value)
       IN  /\ \A r \in 1..5 : <<1, r>> \in (DOMAIN oc) \cap (DOMAIN nc)
           /\ \A r \in 1..5 : <<2, r>> \in (DOMAIN oc) \cap (DOMAIN nc)
           /\ fr = {r \in 1..5 : ValueAt(nc, r).data_type = "f"}
           /\ \A r \in fr : IsRangeFormula(ValueAt(oc, r).value)
                            /\ IsRangeFormula(ValueAt(nc, r).value)
           /\ {r \in 1..5 : ~SameCell(LabelAt(oc, r), LabelAt(nc, r))} = {4}
           /\ {r \in fr : of(r).func # nf(r).func} = {4}
           /\ LabelAt(oc, 4).value = <<"M", "e", "a", "n", " ", "S", "c", "o", "r", "e">> /\ LabelAt(nc, 4).value = <<"M", "e", "d", "i", "a", "n", " ", "S", "c", "o", "r", "e">>
           /\ of(4).func = <<"A", "V", "E", "R", "A", "G", "E">>
           /\ nf(4).func = <<"M", "E", "D", "I", "A", "N">>
           /\ \A r \in fr : /\ of(r).sheet = nf(r).sheet
                            /\ of(r).col1 = nf(r).col1
                            /\ of(r).col2 = nf(r).col2
                            /\ of(r).row1 = nf(r).row1
                            /\ nf(r).row2 = of(r).row2 + RowsAdded(o, n)
                            /\ of(r).row2 = 6 /\ nf(r).row2 = 7
           /\ RowsAdded(o, n) = 1
           /\ ValueAt(oc, 2) = [value |-> 5, data_type |-> "n"]
           /\ ValueAt(nc, 2) = [value |-> 6, data_type |-> "n"]
           /\ ValueAt(nc, 2).value = ValueAt(oc, 2).value + RowsAdded(o, n)
           /\ \A r \in (1..5) \ (fr \cup {2}) : SameCell(ValueAt(oc, r), ValueAt(nc, r))

C6_Witness ==
  \E o \in Handed(OldPath), n \in Handed(NewPath) :
    /\ HasSheet(o, SheetSummary) /\ HasSheet(n, SheetSummary)
    /\ ValueAt(CellsOf(o, SheetSummary), 4).data_type = "f"
    /\ ValueAt(CellsOf(n, SheetSummary), 4).data_type = "f"

\* the column-B cell of a Summary row is a literal integer, or a formula over a
\* closed range of a sheet of the same workbook named Data
IntOrDataFormula(c, cell) ==
  \/ cell.data_type = "n"
  \/ /\ cell.data_type = "f"
     /\ cell.value[1] = "="
     /\ IsRangeFormula(cell.value)
     /\ FormulaParts(cell.value).sheet = SheetData
     /\ HasSheet(c, SheetData)
     /\ FormulaParts(cell.value).col1 <= FormulaParts(cell.value).col2
     /\ FormulaParts(cell.value).row1 <= FormulaParts(cell.value).row2

\* C7 as stated (old Summary typing): the Summary sheet handed over by
\* create_old fills exactly A1..B5, column A holds strings in every row 1..5 and
\* column B holds an integer or a Data-range formula in every row 1..5.
C7_AsStated ==
  \A o \in Handed(OldPath) :
    /\ HasSheet(o, SheetSummary)
    /\ FilledExactly(CellsOf(o, SheetSummary), 2, 5)
    /\ \A r \in 1..5 :
         /\ LabelAt(CellsOf(o, SheetSummary), r).data_type = "s"
         /\ IntOrDataFormula(o, ValueAt(CellsOf(o, SheetSummary), r))

\* C7 (old Summary typing, amended): the Summary sheet handed over by create_old
\* fills exactly A1..B5; column A holds strings in every row 1..5; B1 is the
\* string header "Value"; column B holds an integer or a Data-range formula in
\* every row 2..5.
C7_OldSummaryTyping ==
  \A o \in Handed(OldPath) :
    /\ HasSheet(o, SheetSummary)
    /\ FilledExactly(CellsOf(o, SheetSummary), 2, 5)
    /\ \A r \in 1..5 : LabelAt(CellsOf(o, SheetSummary), r).data_type = "s"
    /\ ValueAt(CellsOf(o, SheetSummary), 1) = [value |-> <<"V", "a", "l", "u", "e">>, data_type |-> "s"]
    /\ \A r \in 2..5 : IntOrDataFormula(o, ValueAt(CellsOf(o, SheetSummary), r))

C7_Witness ==
  \E o \in Handed(OldPath) :
    /\ HasSheet(o, SheetSummary)
    /\ <<2, 5>> \in DOMAIN CellsOf(o, SheetSummary)
    /\ ValueAt(CellsOf(o, SheetSummary), 5).data_type = "f"

\* the saves of the current invocation to path p / the accepted ones
SavesNow(p) == {i \in DOMAIN log : log[i].run = run /\ log[i].path = p}

OkSavesNow(p) == {i \in SavesNow(p) : log[i].ok}

In(fn) == \E k \in DOMAIN stack : stack[k].fn = fn

Printed(line) == \E k \in DOMAIN out : out[k] = line

\* what a complete run writes to standard output
FullOutput ==
  << "Created test_old.xlsx", "Created test_new.xlsx", "Done! Run:",
     "  xlsx-review --diff test_old.xlsx test_new.xlsx",
     "  xlsx-review --textconv test_new.xlsx" >>

C8_Order ==
  \* standard output is always a prefix of the five lines, in order
  /\ Len(out) <= Len(FullOutput) /\ out = SubSeq(FullOutput, 1, Len(out))
  \* no file is saved twice in one invocation
  /\ \A p \in Paths : Cardinality(SavesNow(p)) <= 1
  \* nothing of new before old is built, saved and confirmed
  /\ In("create_old") => SavesNow(NewPath) = {} /\ ~Printed("Created test_new.xlsx")
  /\ (In("create_new") \/ SavesNow(NewPath) # {}) =>
        /\ Cardinality(OkSavesNow(OldPath)) = 1
        /\ Printed("Created test_old.xlsx")
        /\ files[OldPath].state = "ok"
        /\ \A i \in SavesNow(OldPath), j \in SavesNow(NewPath) : i < j
  \* a file's confirmation only after its save
  /\ Printed("Created test_old.xlsx") => Cardinality(OkSavesNow(OldPath)) = 1
  /\ Printed("Created test_new.xlsx") => Cardinality(OkSavesNow(NewPath)) = 1
  \* Done and the hints only after both saves
  /\ (\E k \in 3..5 : Printed(FullOutput[k])) =>
        /\ \A p \in Paths : Cardinality(OkSavesNow(p)) = 1 /\ files[p].state = "ok"
        /\ ~In("create_old") /\ ~In("create_new")
  \* a finished run printed everything and wrote both files once
  /\ status = "done" =>
        /\ out = FullOutput
        /\ \A p \in Paths : Cardinality(OkSavesNow(p)) = 1 /\ files[p].state = "ok"

\* C8 (ordering): in one invocation old is built, saved and confirmed before
\* any step of new; new is saved once after that; Done and the two hints come
\* only after both saves; and a run in which the sink rejects nothing reaches
\* Done with both files written exactly once.
C8_Ordering ==
  /\ []C8_Order
  /\ (status = "running") ~> (status = "done" \/ err # "none")

C8_Witness ==
  /\ status = "done" /\ out = FullOutput
  /\ \A p \in Paths : Cardinality(OkSavesNow(p)) = 1

C9_Aborted ==
  /\ \A i \in DOMAIN log :
       (log[i].run = run /\ ~log[i].ok) =>
         /\ status = "aborted" /\ err = "OSError" /\ stack = <<>> /\ wb = NoWb
         /\ i = Len(log)
         /\ Cardinality(SavesNow(log[i].path)) = 1
         /\ ~Printed("Done! Run:")
         /\ log[i].path = OldPath =>
              ~Printed("Created test_old.xlsx") /\ SavesNow(NewPath) = {} /\ out = <<>>
         /\ log[i].path = NewPath => ~Printed("Created test_new.xlsx")
  /\ status = "aborted" <=> err # "none"
  /\ status = "aborted" => \E i \in DOMAIN log : log[i].run = run /\ ~log[i].ok
  /\ status = "done" => \A i \in DOMAIN log : log[i].run = run => log[i].ok

\* C9 (persistence failure): a rejected save ends the invocation at once with
\* the sink's error: the failed file is not confirmed, Done is not printed,
\* after a failure on old nothing of new is built or saved, nothing is retried,
\* and after the abort the process takes no further step.
C9_FailureAborts ==
  /\ []C9_Aborted
  /\ [][status = "aborted" =>
          \/ run' = run + 1
          \/ UNCHANGED <<status, stack, wb, files, out, err, log>>]_vars

C9_Witness ==
  /\ status = "aborted"
  /\ \E i \in DOMAIN log : log[i].run = run /\ ~log[i].ok /\ log[i].path = OldPath
  /\ \E i \in DOMAIN log : log[i].run < run /\ ~log[i].ok /\ log[i].path = NewPath

\* C10 (row append): the k-th append on a sheet whose rows 1..k-1 came from
\* earlier appends puts value i into column i of row k, moves the cursor so
\* that the next row is k+1, touches no address that already holds a cell,
\* and leaves every earlier cell of the sheet and every other sheet as it was.
C10_RowAppend ==
  [][(HasInstr /\ Cur.op = "append") =>
       LET i == locals[Cur.var]
           sh == wb.sheets[i]
           k == sh.current_row + 1
           row == Cur.arg
           written == {<<c, k>> : c \in 1..Len(row)}
       IN  RowsOf(sh.cells) = 1..(k - 1) =>
             /\ Len(wb'.sheets) = Len(wb.sheets)
             /\ DOMAIN wb'.sheets[i].cells = (DOMAIN sh.cells) \cup written
             /\ \A c \in 1..Len(row) :
                  /\ wb'.sheets[i].cells[<<c, k>>].value = row[c].v
                  /\ wb'.sheets[i].cells[<<c, k>>].data_type
                       = (IF row[c].type = "int" THEN "n" ELSE "s")
             /\ wb'.sheets[i].current_row = k
             /\ wb'.sheets[i].title = sh.title
             /\ written \cap (DOMAIN sh.cells) = {}
             /\ \A a \in DOMAIN sh.cells : wb'.sheets[i].cells[a] = sh.cells[a]
             /\ \A j \in (DOMAIN wb.sheets) \ {i} : wb'.sheets[j] = wb.sheets[j]
             /\ UNCHANGED <<files, out, log, locals>>]_vars

\* six rows were appended one below the other
C10_Witness ==
  /\ Running /\ Top.fn = "create_new"
  /\ Len(wb.sheets) = 1
  /\ wb.sheets[1].current_row = 7
  /\ FilledExactly(wb.sheets[1].cells, 4, 7)

=============================================================================
